---- MODULE Spec2Model ----
(***************************************************************************)
(* Model of the OPTIGA Trust X platform abstraction layer for EFR32        *)
(* (src/efr32mg_SiLabs/pal_i2c.c): the I2C bus arbiter                     *)
(* (pal_i2c_acquire / pal_i2c_release on g_entry_count), the transfer      *)
(* engine (pal_i2c_write / pal_i2c_read) and the OS lock                   *)
(* (pal_os_lock_acquire / pal_os_lock_release on a FreeRTOS binary         *)
(* semaphore).                                                             *)
(*                                                                         *)
(* Tasks are preemptible: every access to the volatile g_entry_count is a  *)
(* step of its own.  Steps that touch only locals of the call are merged   *)
(* with the shared access that follows them.                               *)
(***************************************************************************)
EXTENDS Integers, Sequences, FiniteSets, TLC

\* ------------------------------------------------------------------ bounds
NumTasks == 2
MaxDepth == 2
MaxCount == 3

Tasks == 1..NumTasks

\* ------------------------------------------------------------------ inputs
\* p_i2c_context: a null pointer, or optiga_pal_i2c_context_0 with its
\* upper_layer_event_handler set by the upper layer, as the API requires
\* before any read or write (pal_i2c.c line 175).
Contexts == {"NULL", "optiga_pal_i2c_context_0"}

Ops == {"write", "read"}

\* I2CSPM_Transfer: 0 (i2cTransferDone) or a nonzero error code
TransferResults == {0, -1}

VARIABLES
  g_entry_count,         \* static volatile uint32_t g_entry_count
  stack,                 \* per task: the pal_i2c_write/read calls in progress
                         \* (a call made from inside the event handler sits
                         \* above the call whose handler makes it)
  first_call_flag,       \* volatile uint8_t first_call_flag
  xLockSemaphoreHandle,  \* "NULL" or "sem"
  sem_count,             \* tokens held by the binary semaphore (0 or 1)
  critical,              \* task inside vPortEnterCritical, or 0
  lock_pc,               \* per task: position in pal_os_lock_acquire/release
  lock_hist,             \* history: _lock_init runs, semaphores created,
                         \* stores clearing the flag, whether a task released
                         \* a lock it did not hold, gave through a handle
                         \* never created or gave to a full semaphore, and
                         \* per task the status
                         \* its last pal_os_lock_acquire returned, the lock
                         \* state when that call started and whether the
                         \* call has written to the lock state
  p_bitrate,             \* i2c_ctx.p_bitrate, the configured bit rate
  last_call,             \* history: the last pal_i2c_init or
                         \* pal_i2c_set_bitrate call, its inputs, the counter
                         \* when it was made and the status it returned
  arb                    \* per task: a direct use of the bus arbiter
                         \* (pal_i2c_acquire / pal_i2c_release), its position
                         \* and the last call's context, status and counter
                         \* before and after

busVars == <<g_entry_count, stack>>
lockVars == <<first_call_flag, xLockSemaphoreHandle, sem_count, critical,
              lock_pc, lock_hist>>
apiVars == <<p_bitrate, last_call, arb>>
vars == <<g_entry_count, stack, first_call_flag, xLockSemaphoreHandle,
          sem_count, critical, lock_pc, lock_hist, p_bitrate, last_call, arb>>

\* ------------------------------------------------------------- call frames
Top(t) == stack[t][Len(stack[t])]

InCall(t) == stack[t] # <<>>

AllFrames == {<<t, i>> : t \in Tasks, i \in 1..MaxDepth}

Frames == {fi \in AllFrames : fi[2] <= Len(stack[fi[1]])}

FrameAt(fi) == stack[fi[1]][fi[2]]

\* a hard fault (or a jump through a wild pointer) stops the system
Halted == \E fi \in Frames : FrameAt(fi).pc = "fault"

\* the call has acquired the bus and has not released it yet
Holds(f) == f.acquired = "yes" /\ f.pc \notin {"done", "fault"}

Outstanding == \E fi \in Frames : Holds(FrameAt(fi))

\* p_i2c_context->upper_layer_event_handler
HandlerOf(ctx) ==
  IF ctx = "optiga_pal_i2c_context_0" THEN "handler" ELSE "wild"

NewFrame(op, ctx) ==
  [op |-> op, ctx |-> ctx, pc |-> "entry", handler |-> "NULL", tmp |-> 0,
   acquired |-> "pending", i2c_result |-> 0, status |-> "unset",
   log |-> <<>>, cnt_at_call |-> g_entry_count,
   outstanding_at_call |-> Outstanding, deref_null |-> FALSE]

\* ------------------------------------------------------------ bus arbiter
\* mutant: the first test lets a counter of 1 through (<= 1 for == 0)
AcquireTest_AtMostOne(cnt) == cnt <= 1

\* pal_i2c_acquire, line 70: the first test of the counter
AcquireTest(cnt) == cnt = 0

\* pal_i2c_acquire, line 72: g_entry_count++ on a uint32_t.  A task loads
\* the counter only after it has tested it to be 0, so inside pal_i2c_write
\* / pal_i2c_read the stored value never exceeds the number of tasks; where
\* the arbiter is called directly the stored value is capped by MaxCount.
\* The 2^32 wrap is out of reach.
Increment(v) == v + 1

\* mutant: the re-test compares with the value before the increment
AcquireRetest_OldValue(cnt) == cnt = 0

\* pal_i2c_acquire, line 73: the re-test after the increment
AcquireRetest(cnt) == cnt = 1

\* mutant: release undoes one acquire instead of resetting the counter
ReleasedCount_Decrement(ctx, cnt) ==
  IF ctx # "NULL" /\ cnt > 0 THEN cnt - 1 ELSE cnt

\* mutant: release has no null check
ReleasedCount_NoNullCheck(ctx, cnt) == 0

\* mutant: the null check of release is inverted
ReleasedCount_InvertedCheck(ctx, cnt) == IF ctx = "NULL" THEN 0 ELSE cnt

\* pal_i2c_release: the counter after release(p_i2c_context)
ReleasedCount(ctx, cnt) == IF ctx # "NULL" THEN 0 ELSE cnt

\* -------------------------------------------------------- transfer engine
\* the event the call passes to upper_layer_handler
EventOf(acquired, i2c_result) ==
  IF acquired = "yes"
  THEN IF i2c_result = 0 THEN "PAL_I2C_EVENT_SUCCESS"
                         ELSE "PAL_I2C_EVENT_ERROR"
  ELSE "PAL_I2C_EVENT_BUSY"

\* mutant: the transfer result is ignored
StatusOf_IgnoresResult(i2c_result) == "PAL_STATUS_SUCCESS"

\* the status the call assigns on the acquired path
StatusOf(i2c_result) ==
  IF i2c_result = 0 THEN "PAL_STATUS_SUCCESS" ELSE "PAL_STATUS_FAILURE"

SetTop(t, f) ==
  stack' = [stack EXCEPT ![t] = [@ EXCEPT ![Len(@)] = f]]

\* Entry of pal_i2c_write / pal_i2c_read up to the first test of the
\* counter inside pal_i2c_acquire.  The handler is fetched through
\* p_i2c_context before any null check: with a null context that read is
\* undefined behaviour (a fault, or a wild value read from address 0).
Enter(t, op, ctx) ==
  LET f == NewFrame(op, ctx) IN
  IF ctx = "NULL"
  THEN \E out \in {"fault", "busy"} :
         /\ stack' = [stack EXCEPT ![t] = Append(@,
              [f EXCEPT !.deref_null = TRUE,
                        !.handler = HandlerOf(ctx),
                        !.pc = out,
                        !.acquired = IF out = "busy" THEN "no" ELSE "pending",
                        !.status = IF out = "busy" THEN "PAL_STATUS_I2C_BUSY"
                                                   ELSE "unset",
                        !.log = IF out = "busy" THEN <<"acquire_fail">>
                                                ELSE <<>>])]
         /\ UNCHANGED g_entry_count
  ELSE /\ stack' = [stack EXCEPT ![t] = Append(@,
            IF AcquireTest(g_entry_count)
            THEN [f EXCEPT !.handler = HandlerOf(ctx), !.pc = "acq_load"]
            ELSE [f EXCEPT !.handler = HandlerOf(ctx), !.pc = "busy",
                           !.acquired = "no",
                           !.status = "PAL_STATUS_I2C_BUSY",
                           !.log = <<"acquire_fail">>])]
       /\ UNCHANGED g_entry_count

pal_i2c_write(t) ==
  /\ ~Halted
  /\ stack[t] = <<>>
  /\ \E ctx \in Contexts : Enter(t, "write", ctx)
  /\ UNCHANGED <<lockVars, apiVars>>

pal_i2c_read(t) ==
  /\ ~Halted
  /\ stack[t] = <<>>
  /\ \E ctx \in Contexts : Enter(t, "read", ctx)
  /\ UNCHANGED <<lockVars, apiVars>>

\* g_entry_count++ : the load
acquire_load(t) ==
  /\ ~Halted
  /\ InCall(t)
  /\ Top(t).pc = "acq_load"
  /\ SetTop(t, [Top(t) EXCEPT !.tmp = g_entry_count, !.pc = "acq_store"])
  /\ UNCHANGED g_entry_count
  /\ UNCHANGED <<lockVars, apiVars>>

\* g_entry_count++ : the store
acquire_store(t) ==
  /\ ~Halted
  /\ InCall(t)
  /\ Top(t).pc = "acq_store"
  /\ g_entry_count' = Increment(Top(t).tmp)
  /\ SetTop(t, [Top(t) EXCEPT !.pc = "acq_retest",
                              !.log = Append(@, "store")])
  /\ UNCHANGED <<lockVars, apiVars>>

\* if (g_entry_count == 1) return SUCCESS; else FAILURE -> the Busy branch
acquire_retest(t) ==
  /\ ~Halted
  /\ InCall(t)
  /\ Top(t).pc = "acq_retest"
  /\ SetTop(t,
       IF AcquireRetest(g_entry_count)
       THEN [Top(t) EXCEPT !.acquired = "yes", !.pc = "transfer",
                           !.log = Append(@, "acquire_ok")]
       ELSE [Top(t) EXCEPT !.acquired = "no", !.pc = "busy",
                           !.status = "PAL_STATUS_I2C_BUSY",
                           !.log = Append(@, "acquire_fail")])
  /\ UNCHANGED g_entry_count
  /\ UNCHANGED <<lockVars, apiVars>>

\* I2CSPM_Transfer is entered: the peripheral transfer is in flight
transfer_start(t) ==
  /\ ~Halted
  /\ InCall(t)
  /\ Top(t).pc = "transfer"
  /\ SetTop(t, [Top(t) EXCEPT !.pc = "transferring",
                              !.log = Append(@, "transfer")])
  /\ UNCHANGED g_entry_count
  /\ UNCHANGED <<lockVars, apiVars>>

\* I2CSPM_Transfer returns 0 or an error code
transfer_end(t) ==
  /\ ~Halted
  /\ InCall(t)
  /\ Top(t).pc = "transferring"
  /\ \E r \in TransferResults :
       SetTop(t, [Top(t) EXCEPT !.i2c_result = r, !.pc = "notify",
                                !.log = Append(@, "transfer_returned")])
  /\ UNCHANGED g_entry_count
  /\ UNCHANGED <<lockVars, apiVars>>

\* mutant: the Busy branch returns without telling the upper layer
invoke_handler_SilentBusy(t) ==
  /\ ~Halted
  /\ InCall(t)
  /\ Top(t).pc \in {"notify", "busy"}
  /\ LET f == Top(t) IN
       IF f.pc = "busy"
       THEN SetTop(t, [f EXCEPT !.pc = "done"])
       ELSE SetTop(t, [f EXCEPT
              !.pc = "in_handler",
              !.log = Append(@, EventOf(f.acquired, f.i2c_result))])
  /\ UNCHANGED g_entry_count
  /\ UNCHANGED <<lockVars, apiVars>>

\* mutant: the bus is released before the handler is told the outcome
invoke_handler_AfterRelease(t) ==
  /\ ~Halted
  /\ InCall(t)
  /\ Top(t).pc \in {"notify", "busy"}
  /\ LET f == Top(t)
         ev == EventOf(f.acquired, f.i2c_result)
     IN /\ SetTop(t, [f EXCEPT !.pc = "in_handler", !.log = Append(@, ev)])
        /\ g_entry_count' = IF f.acquired = "yes"
                            THEN ReleasedCount(f.ctx, g_entry_count)
                            ELSE g_entry_count
  /\ UNCHANGED <<lockVars, apiVars>>

\* upper_layer_handler(p_i2c_context->upper_layer_ctx, event).  Calling the
\* wild pointer fetched through a null context is undefined: the system
\* faults, or whatever it points to runs as the handler.
invoke_handler(t) ==
  /\ ~Halted
  /\ InCall(t)
  /\ Top(t).pc \in {"notify", "busy"}
  /\ LET f == Top(t)
         ev == EventOf(f.acquired, f.i2c_result)
     IN CASE f.handler = "handler" ->
               SetTop(t, [f EXCEPT !.pc = "in_handler",
                                   !.log = Append(@, ev)])
          [] OTHER ->
               \E out \in {"fault", "ran"} :
                 SetTop(t, [f EXCEPT
                   !.pc = IF out = "fault" THEN "fault" ELSE "in_handler",
                   !.log = IF out = "ran" THEN Append(@, ev) ELSE @])
  /\ UNCHANGED g_entry_count
  /\ UNCHANGED <<lockVars, apiVars>>

\* mutant: the release is placed after the if/else, so the Busy branch
\* runs it too
handler_return_ReleasesOnBusy(t) ==
  /\ ~Halted
  /\ InCall(t)
  /\ Top(t).pc = "in_handler"
  /\ LET f == Top(t) IN
       SetTop(t, IF f.acquired = "yes"
                 THEN [f EXCEPT !.status = StatusOf(f.i2c_result),
                                !.pc = "release"]
                 ELSE [f EXCEPT !.pc = "release"])
  /\ UNCHANGED g_entry_count
  /\ UNCHANGED <<lockVars, apiVars>>

\* the handler returns; on the acquired path status is assigned and the
\* release follows, on the Busy path the function returns
handler_return(t) ==
  /\ ~Halted
  /\ InCall(t)
  /\ Top(t).pc = "in_handler"
  /\ LET f == Top(t) IN
       SetTop(t, IF f.acquired = "yes"
                 THEN [f EXCEPT !.status = StatusOf(f.i2c_result),
                                !.pc = "release"]
                 ELSE [f EXCEPT !.pc = "done"])
  /\ UNCHANGED g_entry_count
  /\ UNCHANGED <<lockVars, apiVars>>

\* pal_i2c_release((void *)p_i2c_context)
pal_i2c_release(t) ==
  /\ ~Halted
  /\ InCall(t)
  /\ Top(t).pc = "release"
  /\ g_entry_count' = ReleasedCount(Top(t).ctx, g_entry_count)
  /\ SetTop(t, [Top(t) EXCEPT !.pc = "done", !.log = Append(@, "release")])
  /\ UNCHANGED <<lockVars, apiVars>>

\* return status: the call's frame ends
return_status(t) ==
  /\ ~Halted
  /\ InCall(t)
  /\ Top(t).pc = "done"
  /\ stack' = [stack EXCEPT ![t] = SubSeq(@, 1, Len(@) - 1)]
  /\ UNCHANGED g_entry_count
  /\ UNCHANGED <<lockVars, apiVars>>

\* the upper layer's event handler calls pal_i2c_write / pal_i2c_read again
\* from inside the callback (the handler runs on the caller's stack)
handler_reenters(t) ==
  /\ ~Halted
  /\ InCall(t)
  /\ Top(t).pc = "in_handler"
  /\ Len(stack[t]) < MaxDepth
  /\ \E op \in Ops, ctx \in Contexts : Enter(t, op, ctx)
  /\ UNCHANGED <<lockVars, apiVars>>

BusStep(t) ==
  \/ pal_i2c_write(t)
  \/ pal_i2c_read(t)
  \/ acquire_load(t)
  \/ acquire_store(t)
  \/ acquire_retest(t)
  \/ transfer_start(t)
  \/ transfer_end(t)
  \/ invoke_handler(t)
  \/ handler_return(t)
  \/ pal_i2c_release(t)
  \/ return_status(t)

\* ------------------------------------------- the arbiter called directly
\* pal_i2c_acquire and pal_i2c_release applied on their own, with any
\* context and in any order, by preemptible tasks
ArbIdle ==
  [pc |-> "idle", fn |-> "none", ctx |-> "NULL", tmp |-> 0,
   status |-> "none", before |-> 0, after |-> 0]

\* pal_i2c_acquire(p_i2c_context): the null check and the first test of
\* the counter
arb_acquire(t) ==
  /\ arb[t].pc = "idle"
  /\ \E ctx \in Contexts :
       LET a == [ArbIdle EXCEPT !.fn = "acquire", !.ctx = ctx,
                                !.before = g_entry_count,
                                !.after = g_entry_count]
       IN arb' = [arb EXCEPT ![t] =
            IF ctx = "NULL"
            THEN [a EXCEPT !.status = "PAL_STATUS_FAILURE"]
            ELSE IF AcquireTest(g_entry_count)
                 THEN [a EXCEPT !.pc = "acq_load", !.status = "pending"]
                 ELSE [a EXCEPT !.status = "PAL_STATUS_FAILURE"]]
  /\ UNCHANGED <<p_bitrate, last_call>>
  /\ UNCHANGED <<busVars, lockVars>>

\* g_entry_count++ : the load
arb_acquire_load(t) ==
  /\ arb[t].pc = "acq_load"
  /\ arb' = [arb EXCEPT ![t].tmp = g_entry_count, ![t].pc = "acq_store"]
  /\ UNCHANGED <<p_bitrate, last_call>>
  /\ UNCHANGED <<busVars, lockVars>>

\* g_entry_count++ : the store.  With releases at any time the counter can
\* climb without limit (each task can load a value another task stored
\* after the first test); the exploration stops at MaxCount.
arb_acquire_store(t) ==
  /\ arb[t].pc = "acq_store"
  /\ arb[t].tmp < MaxCount
  /\ g_entry_count' = Increment(arb[t].tmp)
  /\ arb' = [arb EXCEPT ![t].tmp = 0, ![t].pc = "acq_retest"]
  /\ UNCHANGED <<p_bitrate, last_call, stack>>
  /\ UNCHANGED lockVars

\* if (g_entry_count == 1) return PAL_STATUS_SUCCESS; return
\* PAL_STATUS_FAILURE
arb_acquire_retest(t) ==
  /\ arb[t].pc = "acq_retest"
  /\ arb' = [arb EXCEPT
       ![t].pc = "idle",
       ![t].after = g_entry_count,
       ![t].status = IF AcquireRetest(g_entry_count)
                     THEN "PAL_STATUS_SUCCESS" ELSE "PAL_STATUS_FAILURE"]
  /\ UNCHANGED <<p_bitrate, last_call>>
  /\ UNCHANGED <<busVars, lockVars>>

\* pal_i2c_release(p_i2c_context): a single store, or nothing
arb_release(t) ==
  /\ arb[t].pc = "idle"
  /\ \E ctx \in Contexts :
       /\ g_entry_count' = ReleasedCount(ctx, g_entry_count)
       /\ arb' = [arb EXCEPT ![t] =
            [ArbIdle EXCEPT !.fn = "release", !.ctx = ctx,
                            !.status = "void",
                            !.before = g_entry_count,
                            !.after = ReleasedCount(ctx, g_entry_count)]]
  /\ UNCHANGED <<p_bitrate, last_call, stack>>
  /\ UNCHANGED lockVars

ArbStep(t) ==
  \/ arb_acquire(t)
  \/ arb_acquire_load(t)
  \/ arb_acquire_store(t)
  \/ arb_acquire_retest(t)
  \/ arb_release(t)

\* -------------------------------------------- init and bit rate operations
\* #define I2C_FREQ_HZ SL_I2CSPM_SENSOR_SPEED_MODE /* 100 000 Hz */
I2C_FREQ_HZ == 100000

\* i2c_ctx.sl_i2cspm_sensor: the peripheral the platform configured, or NULL
HwHandles == {"NULL", "SL_I2CSPM_SENSOR_PERIPHERAL"}

\* uint16_t bitrate, in KHz
Bitrates == {0, 400, 65535}

\* a task calls these between two of its own steps: when it is in no
\* pal_i2c_write / pal_i2c_read call, or from inside the event handler
MayCall(t) == IF stack[t] = <<>> THEN TRUE ELSE Top(t).pc = "in_handler"

\* mutant: no test of the hardware handle
InitStatus_NoNullTest(hw) == "PAL_STATUS_SUCCESS"

\* pal_i2c_init: if (current_ctx->sl_i2cspm_sensor == NULL) return
\* PAL_STATUS_FAILURE; return PAL_STATUS_SUCCESS
InitStatus(hw) ==
  IF hw = "NULL" THEN "PAL_STATUS_FAILURE" ELSE "PAL_STATUS_SUCCESS"

\* pal_i2c_init(p_i2c_context), p_i2c_context not NULL (the documented
\* precondition; the function dereferences it unchecked): reads the
\* hardware handle of the context and nothing else
pal_i2c_init(t) ==
  /\ ~Halted
  /\ MayCall(t)
  /\ \E ctx \in Contexts \ {"NULL"}, hw \in HwHandles :
       last_call' = [fn |-> "init", ctx |-> ctx, hw |-> hw, bitrate |-> 0,
                     cnt |-> g_entry_count, n |-> 1 - last_call.n,
                     status |-> InitStatus(hw)]
  /\ UNCHANGED <<p_bitrate, arb>>
  /\ UNCHANGED <<busVars, lockVars>>

\* mutant: the bit rate is set only on a free bus, as the interface
\* description asks
pal_i2c_set_bitrate_BusyWhenHeld(t) ==
  /\ ~Halted
  /\ MayCall(t)
  /\ \E ctx \in Contexts, hw \in HwHandles, bitrate \in Bitrates :
       /\ last_call' = [fn |-> "set_bitrate", ctx |-> ctx, hw |-> hw,
                        bitrate |-> bitrate, cnt |-> g_entry_count,
                        n |-> 1 - last_call.n,
                        status |-> IF g_entry_count = 0
                                   THEN "PAL_STATUS_SUCCESS"
                                   ELSE "PAL_STATUS_I2C_BUSY"]
       /\ p_bitrate' = IF g_entry_count = 0 THEN bitrate * 1000
                                             ELSE p_bitrate
  /\ UNCHANGED arb
  /\ UNCHANGED <<busVars, lockVars>>

\* pal_i2c_set_bitrate(p_i2c_context, bitrate): return PAL_STATUS_SUCCESS
\* (not supporting config changes on run time); no argument is read
pal_i2c_set_bitrate(t) ==
  /\ ~Halted
  /\ MayCall(t)
  /\ \E ctx \in Contexts, hw \in HwHandles, bitrate \in Bitrates :
       last_call' = [fn |-> "set_bitrate", ctx |-> ctx, hw |-> hw,
                     bitrate |-> bitrate, cnt |-> g_entry_count,
                     n |-> 1 - last_call.n,
                     status |-> "PAL_STATUS_SUCCESS"]
  /\ UNCHANGED <<p_bitrate, arb>>
  /\ UNCHANGED <<busVars, lockVars>>

\* ---------------------------------------------------------------- OS lock
\* #define SEM_MAX_VALUE 1: a binary semaphore holds at most one token
SEM_MAX_VALUE == 1

\* mutant: a counting semaphore, every give adds a token
Give_Counting(count) == count + 1

\* xSemaphoreGive: one more token, unless the semaphore is already full
\* (the give then fails and changes nothing)
Give(count) == IF count < SEM_MAX_VALUE THEN count + 1 ELSE count

\* a task inside a critical section is not preempted
Runs(t) == critical \in {0, t}

LockHalted == \E t \in Tasks : lock_pc[t] = "fault"

LockIdle(t) == lock_pc[t] = "idle"

\* the state of the lock: the init flag, the semaphore and its tokens
LockState ==
  [first_call_flag |-> first_call_flag, handle |-> xLockSemaphoreHandle,
   count |-> sem_count]

\* mutant: the one-time check runs outside any critical section
lock_enter_critical_Unprotected(t) ==
  /\ ~LockHalted
  /\ LockIdle(t)
  /\ lock_pc' = [lock_pc EXCEPT ![t] = "check_flag"]
  /\ lock_hist' = [lock_hist EXCEPT !.at_call[t] = LockState,
                                    !.wrote[t] = FALSE]
  /\ UNCHANGED <<first_call_flag, xLockSemaphoreHandle, sem_count, critical>>
  /\ UNCHANGED <<busVars, apiVars>>

\* pal_os_lock_acquire: status = FAILURE; vPortEnterCritical()
lock_enter_critical(t) ==
  /\ ~LockHalted
  /\ LockIdle(t)
  /\ critical = 0
  /\ critical' = t
  /\ lock_pc' = [lock_pc EXCEPT ![t] = "check_flag"]
  /\ lock_hist' = [lock_hist EXCEPT !.at_call[t] = LockState,
                                    !.wrote[t] = FALSE]
  /\ UNCHANGED <<first_call_flag, xLockSemaphoreHandle, sem_count>>
  /\ UNCHANGED <<busVars, apiVars>>

\* mutant: the one-time guard is missing, every call runs _lock_init
lock_check_flag_AlwaysInit(t) ==
  /\ ~LockHalted
  /\ Runs(t)
  /\ lock_pc[t] = "check_flag"
  /\ lock_pc' = [lock_pc EXCEPT ![t] = "init_create"]
  /\ UNCHANGED <<first_call_flag, xLockSemaphoreHandle, sem_count, critical,
                 lock_hist>>
  /\ UNCHANGED <<busVars, apiVars>>

\* if (first_call_flag)
lock_check_flag(t) ==
  /\ ~LockHalted
  /\ Runs(t)
  /\ lock_pc[t] = "check_flag"
  /\ lock_pc' = [lock_pc EXCEPT ![t] =
       IF first_call_flag # 0 THEN "init_create" ELSE "exit_critical"]
  /\ UNCHANGED <<first_call_flag, xLockSemaphoreHandle, sem_count, critical,
                 lock_hist>>
  /\ UNCHANGED <<busVars, apiVars>>

\* _lock_init: xLockSemaphoreHandle = xSemaphoreCreateBinary(), a new
\* semaphore that holds no token
lock_init_create(t) ==
  /\ ~LockHalted
  /\ Runs(t)
  /\ lock_pc[t] = "init_create"
  /\ xLockSemaphoreHandle' = "sem"
  /\ sem_count' = 0
  /\ lock_hist' = [lock_hist EXCEPT !.creates = @ + 1, !.wrote[t] = TRUE]
  /\ lock_pc' = [lock_pc EXCEPT ![t] = "init_give"]
  /\ UNCHANGED <<first_call_flag, critical>>
  /\ UNCHANGED <<busVars, apiVars>>

\* mutant: _lock_init creates the semaphore and leaves it without a token
lock_init_give_Missing(t) ==
  /\ ~LockHalted
  /\ Runs(t)
  /\ lock_pc[t] = "init_give"
  /\ lock_hist' = [lock_hist EXCEPT !.inits = @ + 1, !.wrote[t] = TRUE]
  /\ lock_pc' = [lock_pc EXCEPT ![t] = "clear_flag"]
  /\ UNCHANGED <<first_call_flag, xLockSemaphoreHandle, sem_count, critical>>
  /\ UNCHANGED <<busVars, apiVars>>

\* _lock_init: pal_os_lock_release(), the initial give
lock_init_give(t) ==
  /\ ~LockHalted
  /\ Runs(t)
  /\ lock_pc[t] = "init_give"
  /\ sem_count' = Give(sem_count)
  /\ lock_hist' = [lock_hist EXCEPT !.inits = @ + 1, !.wrote[t] = TRUE]
  /\ lock_pc' = [lock_pc EXCEPT ![t] = "clear_flag"]
  /\ UNCHANGED <<first_call_flag, xLockSemaphoreHandle, critical>>
  /\ UNCHANGED <<busVars, apiVars>>

\* first_call_flag = 0
lock_clear_flag(t) ==
  /\ ~LockHalted
  /\ Runs(t)
  /\ lock_pc[t] = "clear_flag"
  /\ first_call_flag' = 0
  /\ lock_hist' = [lock_hist EXCEPT
       !.flag_clears = IF first_call_flag # 0 THEN @ + 1 ELSE @,
       !.wrote[t] = TRUE]
  /\ lock_pc' = [lock_pc EXCEPT ![t] = "exit_critical"]
  /\ UNCHANGED <<xLockSemaphoreHandle, sem_count, critical>>
  /\ UNCHANGED <<busVars, apiVars>>

\* vPortExitCritical()
lock_exit_critical(t) ==
  /\ ~LockHalted
  /\ Runs(t)
  /\ lock_pc[t] = "exit_critical"
  /\ critical' = 0
  /\ lock_pc' = [lock_pc EXCEPT ![t] = "take"]
  /\ UNCHANGED <<first_call_flag, xLockSemaphoreHandle, sem_count, lock_hist>>
  /\ UNCHANGED <<busVars, apiVars>>

\* xSemaphoreTake(xLockSemaphoreHandle, portMAX_DELAY) == pdTRUE: the task
\* blocks until a token is there, takes it and returns PAL_STATUS_SUCCESS
lock_take(t) ==
  /\ ~LockHalted
  /\ Runs(t)
  /\ lock_pc[t] = "take"
  /\ sem_count > 0
  /\ sem_count' = sem_count - 1
  /\ lock_pc' = [lock_pc EXCEPT ![t] = "holding"]
  /\ lock_hist' = [lock_hist EXCEPT !.status[t] = "PAL_STATUS_SUCCESS",
                                    !.wrote[t] = TRUE]
  /\ UNCHANGED <<first_call_flag, xLockSemaphoreHandle, critical>>
  /\ UNCHANGED <<busVars, apiVars>>

\* mutant: the result of xSemaphoreTake is ignored
lock_take_fails_Ignored(t) ==
  /\ ~LockHalted
  /\ Runs(t)
  /\ lock_pc[t] = "take"
  /\ sem_count = 0
  /\ lock_pc' = [lock_pc EXCEPT ![t] = "holding"]
  /\ lock_hist' = [lock_hist EXCEPT !.status[t] = "PAL_STATUS_SUCCESS"]
  /\ UNCHANGED <<first_call_flag, xLockSemaphoreHandle, sem_count, critical>>
  /\ UNCHANGED <<busVars, apiVars>>

\* the wait ends without a token (xSemaphoreTake returns pdFALSE): the call
\* returns PAL_STATUS_FAILURE
lock_take_fails(t) ==
  /\ ~LockHalted
  /\ Runs(t)
  /\ lock_pc[t] = "take"
  /\ sem_count = 0
  /\ lock_pc' = [lock_pc EXCEPT ![t] = "idle"]
  /\ lock_hist' = [lock_hist EXCEPT !.status[t] = "PAL_STATUS_FAILURE"]
  /\ UNCHANGED <<first_call_flag, xLockSemaphoreHandle, sem_count, critical>>
  /\ UNCHANGED <<busVars, apiVars>>

\* pal_os_lock_release: xSemaphoreGive(xLockSemaphoreHandle).  Giving
\* through a handle that was never created is undefined: a fault
\* (configASSERT), or nothing happens.
SemGive(t, next_pc) ==
  IF xLockSemaphoreHandle = "NULL"
  THEN /\ \E out \in {"fault", next_pc} :
            lock_pc' = [lock_pc EXCEPT ![t] = out]
       /\ UNCHANGED sem_count
  ELSE /\ sem_count' = Give(sem_count)
       /\ lock_pc' = [lock_pc EXCEPT ![t] = next_pc]

\* history of a pal_os_lock_release: whether it gave through a handle that
\* was never created, and whether it gave to a semaphore already full
GiveHist(h) ==
  [h EXCEPT
     !.null_give = @ \/ xLockSemaphoreHandle = "NULL",
     !.full_give = @ \/ (xLockSemaphoreHandle = "sem"
                           /\ sem_count = SEM_MAX_VALUE)]

\* mutant: the release returns without giving the token back
pal_os_lock_release_NoGive(t) ==
  /\ ~LockHalted
  /\ Runs(t)
  /\ lock_pc[t] = "holding"
  /\ lock_pc' = [lock_pc EXCEPT ![t] = "idle"]
  /\ UNCHANGED <<first_call_flag, xLockSemaphoreHandle, sem_count, critical,
                 lock_hist>>
  /\ UNCHANGED <<busVars, apiVars>>

\* the holder releases the lock it acquired
pal_os_lock_release(t) ==
  /\ ~LockHalted
  /\ Runs(t)
  /\ lock_pc[t] = "holding"
  /\ SemGive(t, "idle")
  /\ lock_hist' = GiveHist(lock_hist)
  /\ UNCHANGED <<first_call_flag, xLockSemaphoreHandle, critical>>
  /\ UNCHANGED <<busVars, apiVars>>

\* a task that does not hold the lock calls pal_os_lock_release
stray_lock_release(t) ==
  /\ ~LockHalted
  /\ Runs(t)
  /\ LockIdle(t)
  /\ SemGive(t, lock_pc[t])
  /\ lock_hist' = [GiveHist(lock_hist) EXCEPT !.stray = TRUE]
  /\ UNCHANGED <<first_call_flag, xLockSemaphoreHandle, critical>>
  /\ UNCHANGED <<busVars, apiVars>>

LockStep(t) ==
  \/ lock_enter_critical(t)
  \/ lock_check_flag(t)
  \/ lock_init_create(t)
  \/ lock_init_give(t)
  \/ lock_clear_flag(t)
  \/ lock_exit_critical(t)
  \/ lock_take(t)
  \/ lock_take_fails(t)
  \/ pal_os_lock_release(t)
  \/ stray_lock_release(t)

\* ------------------------------------------------------------------- init
Init ==
  /\ g_entry_count = 0
  /\ stack = [t \in Tasks |-> <<>>]
  /\ first_call_flag = 1
  /\ xLockSemaphoreHandle = "NULL"
  /\ sem_count = 0
  /\ critical = 0
  /\ lock_pc = [t \in Tasks |-> "idle"]
  /\ lock_hist = [creates |-> 0, inits |-> 0, flag_clears |-> 0,
                  stray |-> FALSE, null_give |-> FALSE, full_give |-> FALSE,
                  status |-> [t \in Tasks |-> "none"],
                  at_call |-> [t \in Tasks |-> LockState],
                  wrote |-> [t \in Tasks |-> FALSE]]
  /\ p_bitrate = I2C_FREQ_HZ
  /\ last_call = [fn |-> "none", ctx |-> "NULL", hw |-> "NULL", bitrate |-> 0,
                  cnt |-> 0, n |-> 0, status |-> "none"]
  /\ arb = [t \in Tasks |-> ArbIdle]

\* preemptive tasks calling pal_i2c_write / pal_i2c_read concurrently
Next == \E t \in Tasks : BusStep(t)

Spec == Init /\ [][Next]_vars

\* the call sequencing the design assumes: one caller at a time, a call
\* overlapping another only when the event handler re-enters the API
Serial(t) == \A u \in Tasks \ {t} : stack[u] = <<>>

SeqNext ==
  \E t \in Tasks :
    /\ Serial(t)
    /\ \/ BusStep(t)
       \/ handler_reenters(t)
       \/ pal_i2c_init(t)
       \/ pal_i2c_set_bitrate(t)

SeqSpec == Init /\ [][SeqNext]_vars

\* preemptive tasks using the OS lock
LockNext == \E t \in Tasks : LockStep(t)

LockSpec == Init /\ [][LockNext]_vars

\* tasks that use the lock as designed: every release follows the caller's
\* own acquire, and the wait in xSemaphoreTake is unbounded (portMAX_DELAY)
FairLockStep(t) ==
  \/ lock_enter_critical(t)
  \/ lock_check_flag(t)
  \/ lock_init_create(t)
  \/ lock_init_give(t)
  \/ lock_clear_flag(t)
  \/ lock_exit_critical(t)
  \/ lock_take(t)
  \/ pal_os_lock_release(t)

FairLockNext == \E t \in Tasks : FairLockStep(t)

\* fair scheduling: a task inside pal_os_lock_acquire keeps running, a
\* holder comes to call pal_os_lock_release, and a task blocked in
\* xSemaphoreTake that finds a token again and again gets one.  No task is
\* obliged to call pal_os_lock_acquire.
LockFairness ==
  \A t \in Tasks :
    /\ WF_vars(lock_check_flag(t))
    /\ WF_vars(lock_init_create(t))
    /\ WF_vars(lock_init_give(t))
    /\ WF_vars(lock_clear_flag(t))
    /\ WF_vars(lock_exit_critical(t))
    /\ SF_vars(lock_take(t))
    /\ WF_vars(pal_os_lock_release(t))

FairLockSpec == Init /\ [][FairLockNext]_vars /\ LockFairness

\* preemptible tasks applying the arbiter's two functions directly
ArbiterNext == \E t \in Tasks : ArbStep(t)

ArbiterSpec == Init /\ [][ArbiterNext]_vars

\* ----------------------------------------------------------------- claims
Count(log, x) == Cardinality({i \in 1..Len(log) : log[i] = x})

EventNames ==
  {"PAL_I2C_EVENT_SUCCESS", "PAL_I2C_EVENT_ERROR", "PAL_I2C_EVENT_BUSY"}

IsEvent(x) == x \in EventNames

\* the events the call has passed to the handler, in order
Events(f) == SelectSeq(f.log, IsEvent)

\* C1: for every interleaving of tasks calling pal_i2c_write /
\* pal_i2c_read, at most one call is between its successful acquire and its
\* release, and at most one peripheral transfer is in flight.
C1_AtMostOneCallHoldsBus ==
  /\ Cardinality({fi \in Frames : Holds(FrameAt(fi))}) <= 1
  /\ Cardinality({fi \in Frames : FrameAt(fi).pc = "transferring"}) <= 1

\* C2: every pal_i2c_write / pal_i2c_read call with a non-null context (and
\* a set handler) invokes the event handler exactly once before it returns,
\* on the success, the transfer-error and the busy path: never twice at any
\* point of the call, and once when it has returned.
C2_HandlerInvokedExactlyOnce ==
  \A fi \in Frames :
    LET f == FrameAt(fi) IN
      f.ctx # "NULL" =>
        /\ Len(Events(f)) <= 1
        /\ f.pc \in {"release", "done"} => Len(Events(f)) = 1

\* two calls have returned, one on the path where the acquire failed at
\* the re-test and one that acquired the bus, each after one handler call
C2_Witness ==
  \E fi \in Frames, fj \in Frames :
    /\ FrameAt(fi).pc = "done" /\ FrameAt(fj).pc = "done"
    /\ FrameAt(fi).acquired = "yes" /\ Len(Events(FrameAt(fi))) = 1
    /\ FrameAt(fj).acquired = "no" /\ Count(FrameAt(fj).log, "store") = 1
    /\ FrameAt(fj).ctx # "NULL" /\ Len(Events(FrameAt(fj))) = 1

\* C3: the returned status and the event passed to the handler agree and
\* are fixed by the path: acquired and transfer returned 0 gives (Success,
\* EVENT_SUCCESS); acquired and transfer nonzero gives (Failure,
\* EVENT_ERROR); acquire failed gives (Busy, EVENT_BUSY); no other pair.
C3_StatusAndEventFollowPath ==
  \A fi \in Frames :
    LET f == FrameAt(fi) IN
      (f.ctx # "NULL" /\ f.pc = "done") =>
        \/ /\ f.acquired = "yes" /\ Count(f.log, "transfer") = 1
           /\ f.i2c_result = 0
           /\ f.status = "PAL_STATUS_SUCCESS"
           /\ Events(f) = <<"PAL_I2C_EVENT_SUCCESS">>
        \/ /\ f.acquired = "yes" /\ Count(f.log, "transfer") = 1
           /\ f.i2c_result # 0
           /\ f.status = "PAL_STATUS_FAILURE"
           /\ Events(f) = <<"PAL_I2C_EVENT_ERROR">>
        \/ /\ f.acquired = "no" /\ Count(f.log, "transfer") = 0
           /\ f.status = "PAL_STATUS_I2C_BUSY"
           /\ Events(f) = <<"PAL_I2C_EVENT_BUSY">>

\* a read whose transfer failed has returned Failure after the Error event
\* while a write of another task has returned Busy after the Busy event
C3_Witness ==
  \E fi \in Frames, fj \in Frames :
    /\ FrameAt(fi).pc = "done" /\ FrameAt(fi).op = "read"
    /\ FrameAt(fi).status = "PAL_STATUS_FAILURE"
    /\ Events(FrameAt(fi)) = <<"PAL_I2C_EVENT_ERROR">>
    /\ FrameAt(fj).pc = "done" /\ FrameAt(fj).op = "write"
    /\ FrameAt(fj).ctx # "NULL"
    /\ FrameAt(fj).status = "PAL_STATUS_I2C_BUSY"
    /\ Events(FrameAt(fj)) = <<"PAL_I2C_EVENT_BUSY">>

C6_AcquireFollowsOutstandingCall ==
  \A fi \in Frames :
    LET f == FrameAt(fi) IN
      (f.ctx # "NULL" /\ f.pc \notin {"acq_load", "acq_store", "acq_retest"})
        => /\ ~f.outstanding_at_call => f.acquired = "yes"
           /\ f.outstanding_at_call =>
                /\ f.acquired = "no"
                /\ f.status = "PAL_STATUS_I2C_BUSY"

\* a read issued from the handler of a write that holds the bus came back
\* Busy, and a call issued with no call outstanding has acquired
C6_Witness ==
  \E t \in Tasks :
    /\ Len(stack[t]) >= 2
    /\ stack[t][1].op = "write" /\ Holds(stack[t][1])
    /\ ~stack[t][1].outstanding_at_call
    /\ stack[t][2].op = "read" /\ stack[t][2].outstanding_at_call
    /\ stack[t][2].pc = "done"
    /\ stack[t][2].status = "PAL_STATUS_I2C_BUSY"

\* C7: no outcome is fatal for the bus: whenever no pal_i2c_write /
\* pal_i2c_read call is in progress the counter is 0, so a re-issued call
\* can acquire the bus.
C7_IdleBusIsFree ==
  (\A t \in Tasks : stack[t] = <<>>) => g_entry_count = 0

\* C8: a call with a null context fails fast with an error status, without
\* reading any field of the context and without invoking a handler through
\* it.
C8_NullContextFailsFast ==
  \A fi \in Frames :
    LET f == FrameAt(fi) IN
      f.ctx = "NULL" =>
        /\ ~f.deref_null
        /\ Len(Events(f)) = 0
        /\ f.pc # "fault"

\* C9: across every interleaving of pal_os_lock_acquire calls the lock is
\* initialised at most once: _lock_init (creation and initial give) has run
\* exactly once as soon as any task is past the critical section, and
\* first_call_flag goes 1 -> 0 once and never back.
C9_LockInitialisedOnce ==
  /\ lock_hist.creates <= 1
  /\ lock_hist.inits <= 1
  /\ lock_hist.flag_clears <= 1
  /\ first_call_flag \in {0, 1}
  /\ lock_hist.flag_clears = 1 => first_call_flag = 0
  /\ first_call_flag = 0 =>
       /\ lock_hist.creates = 1 /\ lock_hist.inits = 1
       /\ lock_hist.flag_clears = 1
       /\ xLockSemaphoreHandle = "sem"
  /\ \A t \in Tasks :
       (lock_pc[t] \in {"take", "holding"} \/ lock_hist.status[t] # "none")
         => first_call_flag = 0 /\ lock_hist.inits = 1

\* two tasks are past the one-time initialisation, one holding the lock and
\* one waiting for it, and the initialisation has run once
C9_Witness ==
  \E t \in Tasks, u \in Tasks :
    /\ lock_pc[t] = "holding" /\ lock_pc[u] = "take"
    /\ lock_hist.inits = 1 /\ lock_hist.creates = 1
    /\ first_call_flag = 0

LockHolders == {t \in Tasks : lock_pc[t] = "holding"}

\* C10: when every task releases only after its own successful acquire, at
\* most one task is between a pal_os_lock_acquire that returned Success and
\* its release; the initialised lock is held (no token) exactly while a
\* task holds it and free (one token) otherwise.
C10_LockMutualExclusion ==
  ~lock_hist.stray =>
    /\ Cardinality(LockHolders) <= 1
    /\ \A t \in LockHolders : lock_hist.status[t] = "PAL_STATUS_SUCCESS"
    /\ first_call_flag = 0 => (sem_count = 0 <=> LockHolders # {})
    /\ first_call_flag = 0 => sem_count <= 1

\* one task holds the lock while another, whose earlier acquire and release
\* are done, waits in xSemaphoreTake
C10_Witness ==
  \E t \in Tasks, u \in Tasks :
    /\ ~lock_hist.stray
    /\ lock_pc[t] = "holding" /\ lock_pc[u] = "take"
    /\ lock_hist.status[u] = "PAL_STATUS_SUCCESS"
    /\ sem_count = 0

AcquireFailed(t) ==
  lock_pc[t] = "idle" /\ lock_hist.status[t] = "PAL_STATUS_FAILURE"

\* C12: an acquire followed by the holder's release returns the lock to the
\* free state, whether the acquire found the lock uninitialised or free:
\* right after the release the semaphore exists and holds its one token, so
\* a following acquire gets it without waiting for any other task.
C12_AcquireReleaseRestoresFree ==
  [][\A t \in Tasks :
       (lock_pc[t] = "holding" /\ lock_pc'[t] # "holding") =>
         /\ lock_pc'[t] = "idle"
         /\ xLockSemaphoreHandle' = "sem" /\ first_call_flag' = 0
         /\ sem_count' = 1]_vars

\* the task whose acquire initialised the lock has released it, and then
\* acquired it again while no other task has used the lock
C12_Witness ==
  \E t \in Tasks :
    /\ lock_pc[t] = "holding" /\ ~lock_hist.stray
    /\ lock_hist.at_call[t].first_call_flag = 0
    /\ lock_hist.at_call[t].count = 1
    /\ \A u \in Tasks \ {t} :
         lock_pc[u] = "idle" /\ lock_hist.status[u] = "none"

\* C13 as stated: a pal_os_lock_acquire that returns Failure has written
\* nothing to the lock state, on the first-ever call as on later ones.
C13_FailedAcquireWroteNothing ==
  \A t \in Tasks : AcquireFailed(t) => ~lock_hist.wrote[t]

\* C13 (amended): a pal_os_lock_acquire that returns Failure has taken no
\* token; if it found the lock initialised it has written nothing to the
\* lock state, and if it was the first-ever call it has run the one-time
\* initialisation, which stays in effect (flag cleared, semaphore created).
C13_FailedAcquireOnlyInitialises ==
  \A t \in Tasks :
    AcquireFailed(t) =>
      /\ first_call_flag = 0 /\ xLockSemaphoreHandle = "sem"
      /\ lock_hist.at_call[t].first_call_flag = 0 =>
           /\ ~lock_hist.wrote[t]
           /\ lock_hist.at_call[t].handle = xLockSemaphoreHandle
      /\ lock_hist.at_call[t].first_call_flag # 0 =>
           /\ lock_hist.wrote[t]
           /\ lock_hist.at_call[t].handle = "NULL"

\* a task's first-ever call initialised the lock and then failed in the
\* wait, because another task took the token in between and holds the lock
C13_Witness ==
  \E t \in Tasks : \E u \in Tasks \ {t} :
    /\ AcquireFailed(t) /\ lock_hist.at_call[t].first_call_flag # 0
    /\ lock_hist.wrote[t] /\ lock_hist.creates = 1
    /\ lock_pc[u] = "holding"

\* a step that is a pal_i2c_init or pal_i2c_set_bitrate call
ApiCall(fn) == last_call' # last_call /\ last_call'.fn = fn

C16_CounterIsZeroOrOne == g_entry_count \in {0, 1}

IsPrefix(a, b) == Len(a) <= Len(b) /\ a = SubSeq(b, 1, Len(a))

\* the orders in which one call may run its steps
CallPaths ==
  {<<"store", "acquire_ok", "transfer", "transfer_returned", ev, "release">> :
     ev \in {"PAL_I2C_EVENT_SUCCESS", "PAL_I2C_EVENT_ERROR"}}
  \cup {<<"acquire_fail", "PAL_I2C_EVENT_BUSY">>,
        <<"store", "acquire_fail", "PAL_I2C_EVENT_BUSY">>}

\* C17: within one call the steps keep their order: the transfer starts
\* only after the acquire succeeded, the release runs only after the
\* transfer has returned (and after the handler), and a call whose acquire
\* failed runs neither a transfer nor a release.
C17_StepsOfACallInOrder ==
  \A fi \in Frames :
    LET f == FrameAt(fi) IN
      /\ \E path \in CallPaths : IsPrefix(f.log, path)
      /\ f.pc \in {"transfer", "transferring", "release"} =>
           f.acquired = "yes"
      /\ f.acquired = "no" =>
           Count(f.log, "transfer") = 0 /\ Count(f.log, "release") = 0

\* one call has run acquire, transfer, handler and release in this order
\* while another, whose acquire failed at the re-test, has only told the
\* handler Busy
C17_Witness ==
  \E fi \in Frames, fj \in Frames :
    /\ FrameAt(fi).log = <<"store", "acquire_ok", "transfer",
                           "transfer_returned", "PAL_I2C_EVENT_ERROR",
                           "release">>
    /\ FrameAt(fj).log = <<"store", "acquire_fail", "PAL_I2C_EVENT_BUSY">>
    /\ FrameAt(fj).pc = "done"

\* C18: in a call that acquired the bus the handler (Success or Error
\* event) runs while the bus is still held and the release comes after it:
\* a pal_i2c_write / pal_i2c_read issued from inside that handler fails to
\* acquire, returns Busy after a Busy event and runs no release, so the
\* outer call still holds the bus; the outer call ends with the counter 0.
C18_HandlerRunsWhileBusHeld ==
  \A t \in Tasks : \A i \in 1..Len(stack[t]) :
    LET f == stack[t][i] IN
      f.acquired = "yes" =>
        /\ f.pc = "in_handler" =>
             /\ g_entry_count = 1
             /\ Len(Events(f)) = 1 /\ Count(f.log, "release") = 0
             /\ \A j \in (i + 1)..Len(stack[t]) :
                  LET g == stack[t][j] IN
                    g.pc # "fault" =>
                      /\ g.acquired = "no"
                      /\ g.status = "PAL_STATUS_I2C_BUSY"
                      /\ Count(g.log, "release") = 0
                      /\ (g.pc = "done" /\ g.ctx # "NULL") =>
                           Events(g) = <<"PAL_I2C_EVENT_BUSY">>
        /\ f.pc = "done" =>
             /\ g_entry_count = 0
             /\ Len(Events(f)) = 1 /\ Count(f.log, "release") = 1
             /\ f.log[Len(f.log)] = "release"

\* a read's handler, told Success, has issued a write that came back Busy
\* after its own Busy event, and the read still holds the bus
C18_Witness ==
  \E t \in Tasks :
    /\ Len(stack[t]) = 2
    /\ stack[t][1].op = "read" /\ stack[t][1].pc = "in_handler"
    /\ stack[t][1].acquired = "yes"
    /\ Events(stack[t][1]) = <<"PAL_I2C_EVENT_SUCCESS">>
    /\ stack[t][2].op = "write" /\ stack[t][2].pc = "done"
    /\ stack[t][2].ctx # "NULL"
    /\ stack[t][2].status = "PAL_STATUS_I2C_BUSY"
    /\ Events(stack[t][2]) = <<"PAL_I2C_EVENT_BUSY">>
    /\ g_entry_count = 1

\* C19: pal_i2c_release with a non-null context sets the counter to 0 from
\* any value and whoever acquired the bus (there is no owner check), and it
\* is idempotent: a second release leaves the counter at 0.
C19_ReleaseResetsCounter ==
  /\ [](\A t \in Tasks :
         (arb[t].fn = "release" /\ arb[t].ctx # "NULL") =>
           /\ arb[t].after = 0
           /\ ReleasedCount(arb[t].ctx, arb[t].after) = arb[t].after)
  /\ [][\A t \in Tasks :
         (arb'[t] # arb[t] /\ arb'[t].fn = "release"
            /\ arb'[t].ctx # "NULL") => g_entry_count' = 0]_vars

\* a task released the bus another task had acquired, then released again
\* with the counter already 0
C19_Witness ==
  \E t \in Tasks : \E u \in Tasks \ {t} :
    /\ arb[u].fn = "acquire" /\ arb[u].status = "PAL_STATUS_SUCCESS"
    /\ arb[u].pc = "idle"
    /\ arb[t].fn = "release" /\ arb[t].ctx # "NULL"
    /\ arb[t].before = 0 /\ arb[t].after = 0
    /\ g_entry_count = 0

\* C20: with a null context the arbiter changes nothing: pal_i2c_acquire
\* returns Failure at once and leaves the counter as it was, free or held,
\* and pal_i2c_release is a no-op that leaves a held bus held.
C20_NullContextChangesNothing ==
  /\ [](\A t \in Tasks :
         arb[t].ctx = "NULL" =>
           /\ arb[t].pc = "idle"
           /\ arb[t].after = arb[t].before
           /\ arb[t].fn = "acquire" =>
                arb[t].status = "PAL_STATUS_FAILURE")
  /\ [][\A t \in Tasks :
         (arb'[t] # arb[t] /\ arb'[t].ctx = "NULL") =>
           g_entry_count' = g_entry_count]_vars

\* on a held bus one task's acquire with a null context returned Failure
\* and another task's release with a null context left the counter at 1
C20_Witness ==
  \E t \in Tasks : \E u \in Tasks \ {t} :
    /\ arb[t].fn = "acquire" /\ arb[t].ctx = "NULL"
    /\ arb[t].status = "PAL_STATUS_FAILURE" /\ arb[t].before = 1
    /\ arb[u].fn = "release" /\ arb[u].ctx = "NULL"
    /\ arb[u].before = 1 /\ arb[u].after = 1
    /\ g_entry_count = 1

\* C21: the OS lock is binary: pal_os_lock_release never blocks (a task
\* that is not inside a call can always run it, and it returns), and any
\* number of releases on an initialised lock leaves at most one token, so
\* each release leaves exactly one token, the acquire that takes it leaves
\* none and the next acquire has to wait.
C21_LockIsBinary ==
  /\ [](/\ sem_count \in {0, 1}
        /\ \A t \in Tasks :
             (~LockHalted /\ critical = 0 /\ LockIdle(t)) =>
               ENABLED stray_lock_release(t)
        /\ sem_count = 0 => \A t \in Tasks : ~ENABLED lock_take(t))
  /\ [][\A t \in Tasks :
         /\ ((stray_lock_release(t) \/ pal_os_lock_release(t))
               /\ xLockSemaphoreHandle = "sem") =>
              (sem_count' = 1 /\ lock_pc'[t] = "idle")
         /\ lock_take(t) => sem_count' = 0]_vars

\* a release has been made on a lock that already had its token, and
\* after it one task took the token at once while the next one waits
C21_Witness ==
  \E t \in Tasks : \E u \in Tasks \ {t} :
    /\ lock_hist.full_give /\ ~lock_hist.null_give
    /\ lock_pc[t] = "holding" /\ lock_hist.at_call[t].count = 1
    /\ lock_pc[u] = "take" /\ sem_count = 0

\* C22: in every sequence of lock operations pal_os_lock_release only ever
\* signals a semaphore that has been created: no release runs while the
\* lock is still uninitialised (first_call_flag = 1, handle not created).
C22_ReleaseOnlyOnCreatedSemaphore == ~lock_hist.null_give

====
